---------------------------- MODULE Spec2Model ----------------------------
(***************************************************************************)
(* Model of the sanctions-screener service.                                *)
(*                                                                         *)
(*   src/heatmap.py  get_heatmap and its in-memory cache (SpecHeatmap),    *)
(*                   build_heatmap_full's aggregation loop (SpecBuild)     *)
(*   src/main.py     screen_person (SpecScreen), recursive_find (SpecFind) *)
(*                                                                         *)
(* Each specification drives one part; the variables of the other parts    *)
(* stay at their initial values.                                           *)
(***************************************************************************)
EXTENDS Integers, Sequences, FiniteSets, TLC

VARIABLES
    \* ---- src/heatmap.py: get_heatmap ----
    clock,          \* time.time(), in seconds
    env_ttl,        \* os.getenv("HEATMAP_CACHE_TTL"), "unset" when absent
    cache,          \* _HEATMAP_CACHE: [data, updated_at]
    builds,         \* number of build_heatmap_full invocations so far
    requests,       \* number of get_heatmap requests received so far
    req,            \* per worker thread: the locals of its get_heatmap call
    \* ---- src/heatmap.py: build_heatmap_full ----
    bpc,                  \* where the call stands
    max_entities_global,  \* its argument
    processed_global,
    dataset_count,
    ds_attempt,           \* the entry of the dataset being processed
    debug_attempts,
    totals_sum,           \* sum(totals.values())
    samples,              \* len(samples)
    counted,              \* entities that have incremented totals
    result,               \* meta of the returned dict
    \* ---- src/main.py: screen_person ----
    spc,                  \* where the request stands
    api_key,              \* os.getenv("OPENSANCTIONS_KEY"), "" when unset
    env_max,              \* os.getenv("OPENSANCTIONS_MAX_RESULTS") or "unset"
    MAX_RESULTS,
    calls,                \* the upstream requests made, in order
    match_resp,           \* how the match endpoint answered
    match_results,
    unique_by_id,         \* insertion-ordered dict, as <<key, record>> pairs
    total_collected,
    used_search,
    raw_results_count,
    http_status,          \* status of the answer, 0 while there is none
    body,                 \* the JSON body returned with status 200
    \* ---- src/main.py: recursive_find ----
    fpc,                  \* "call" before and "returned" after the call
    obj,                  \* the tree searched
    keys,                 \* the key names looked for
    found                 \* the value returned

hmVars == <<clock, env_ttl, cache, builds, requests, req>>

bdVars == <<bpc, max_entities_global, processed_global, dataset_count,
            ds_attempt, debug_attempts, totals_sum, samples, counted, result>>

scVars == <<spc, api_key, env_max, MAX_RESULTS, calls, match_resp,
            match_results, unique_by_id, total_collected, used_search,
            raw_results_count, http_status, body>>

rfVars == <<fpc, obj, keys, found>>

vars == <<hmVars, bdVars, scVars, rfVars>>

\* JSON values: None, a string, a dict (its items in order, as [k, val]) or
\* a list (its elements as [k |-> "", val]).
None == [t |-> "none", v |-> "", kids |-> <<>>]

\* No recursive_find call is modelled.
FindIdle ==
    /\ fpc = "idle"
    /\ obj = None
    /\ keys = <<>>
    /\ found = None

NoMatchResp == [outcome |-> "none", status |-> 0, json |-> FALSE]

NoBody == [status |-> "none", matches |-> <<>>, raw_results_count |-> 0,
           requested_max_results |-> 0, used_search |-> FALSE]

\* No screen_person request is modelled.
ScreenIdle ==
    /\ spc = "idle"
    /\ api_key = ""
    /\ env_max = "unset"
    /\ MAX_RESULTS = 0
    /\ calls = <<>>
    /\ match_resp = NoMatchResp
    /\ match_results = <<>>
    /\ unique_by_id = <<>>
    /\ total_collected = 0
    /\ used_search = FALSE
    /\ raw_results_count = 0
    /\ http_status = 0
    /\ body = NoBody

\* No call of build_heatmap_full is modelled step by step.
NoAttempt == [url |-> FALSE, entities_tried |-> 0, entities_with_country |-> 0,
              error |-> "None"]

NoResult == [total_entities_with_country |-> 0, global_entity_cap |-> 0,
             datasets_seen |-> 0]

BuildIdle ==
    /\ bpc = "idle"
    /\ max_entities_global = 0
    /\ processed_global = 0
    /\ dataset_count = 0
    /\ ds_attempt = NoAttempt
    /\ debug_attempts = <<>>
    /\ totals_sum = 0
    /\ samples = 0
    /\ counted = 0
    /\ result = NoResult

-----------------------------------------------------------------------------
(***************************************************************************)
(* src/heatmap.py : the cache and get_heatmap                              *)
(***************************************************************************)

\* Bounds of the heatmap model.
StartTime == 3
MaxTicks == 1
MaxRequests == 2

\* heatmap.py:22
CACHE_TTL_SECONDS == 21600
\* heatmap.py:377 and 392, the default of cap
DEFAULT_CAP == 1000000

\* The variables of the other parts.
otherThanHeatmap == <<bdVars, scVars, rfVars>>

MaxTime == StartTime + CACHE_TTL_SECONDS + MaxTicks

\* The worker threads of the thread pool that serves the synchronous endpoint.
Threads == {"t1", "t2"}

\* Values of the cap query parameter that requests carry.
Caps == {0, 2}

\* Values of the HEATMAP_CACHE_TTL environment variable.
TtlEnv == {"unset", "abc", "2"}

\* Whether int(s) succeeds, and its value then.
IsIntString(s) == s \in {"0", "1", "2", "50", "21600"}

ParseInt(s) ==
    CASE s = "0" -> 0
      [] s = "1" -> 1
      [] s = "2" -> 2
      [] s = "50" -> 50
      [] s = "21600" -> CACHE_TTL_SECONDS

\* str(CACHE_TTL_SECONDS)
TtlDefaultStr == "21600"

\* _get_cache_ttl: int(os.getenv("HEATMAP_CACHE_TTL", str(CACHE_TTL_SECONDS))),
\* CACHE_TTL_SECONDS when int() raises.
GetCacheTtl(env) ==
    LET s == IF env = "unset" THEN TtlDefaultStr ELSE env
    IN  IF IsIntString(s) THEN ParseInt(s) ELSE CACHE_TTL_SECONDS

\* None, as the value of _HEATMAP_CACHE["data"] and of a missing response.
NoData == [id |-> 0, global_entity_cap |-> 0]

\* The object build_heatmap_full returns: a fresh dict (id is its identity)
\* whose meta carries global_entity_cap (heatmap.py:365).
BuildResult(id, cap_value) ==
    [id |-> id, global_entity_cap |-> cap_value]

\* cap_value = int(cap) if cap else 1_000_000
\* Faulty variant: a cap of 0 is passed on as it is.
CapValue_NoDefault(cap) == cap

CapValue(cap) == IF cap # 0 THEN cap ELSE DEFAULT_CAP

\* not force and cached is not None and (now - updated) < ttl
\* Faulty variant: force is not looked at.
CacheHit_IgnoreForce(force, cached, now, updated, ttl) ==
    cached # NoData /\ (now - updated) < ttl

\* Faulty variant: the age is compared the wrong way round.
CacheHit_WrongCompare(force, cached, now, updated, ttl) ==
    ~force /\ cached # NoData /\ (now - updated) > ttl

CacheHit(force, cached, now, updated, ttl) ==
    ~force /\ cached # NoData /\ (now - updated) < ttl

IdleReq ==
    [pc |-> "idle", force |-> FALSE, cap |-> 0, now |-> 0, ttl |-> 0,
     cached |-> NoData, updated |-> 0, cap_value |-> 0, data |-> NoData,
     resp |-> NoData, invoked |-> 0, wrote |-> 0]

HeatmapInit ==
    /\ BuildIdle
    /\ ScreenIdle
    /\ FindIdle
    /\ clock = StartTime
    /\ env_ttl \in TtlEnv
    /\ cache = [data |-> NoData, updated_at |-> 0]
    /\ builds = 0
    /\ requests = 0
    /\ req = [t \in Threads |-> IdleReq]

\* The wall clock advances, by a second or by a whole default TTL (at most
\* MaxTicks seconds, and one TTL, so that the clock stays bounded).
Tick ==
    /\ \E d \in {1, CACHE_TTL_SECONDS} :
          /\ clock + d <= MaxTime
          /\ d = 1 => (clock - StartTime) % CACHE_TTL_SECONDS < MaxTicks
          /\ clock' = clock + d
    /\ UNCHANGED <<env_ttl, cache, builds, requests, req, otherThanHeatmap>>

\* heatmap.py:377-384: a request arrives at a thread that is free;
\* now = time.time(); ttl = _get_cache_ttl()
Start(t) ==
    /\ req[t].pc \in {"idle", "done", "failed"}
    /\ requests < MaxRequests
    /\ requests' = requests + 1
    /\ \E force \in BOOLEAN, cap \in Caps :
          req' = [req EXCEPT ![t] =
                    [IdleReq EXCEPT !.pc = "read_data", !.force = force,
                                    !.cap = cap, !.now = clock,
                                    !.ttl = GetCacheTtl(env_ttl)]]
    /\ UNCHANGED <<clock, env_ttl, cache, builds, otherThanHeatmap>>

\* heatmap.py:385: cached = _HEATMAP_CACHE.get("data")
ReadData(t) ==
    /\ req[t].pc = "read_data"
    /\ req' = [req EXCEPT ![t].pc = "read_updated", ![t].cached = cache.data]
    /\ UNCHANGED <<clock, env_ttl, cache, builds, requests, otherThanHeatmap>>

\* heatmap.py:386-389: updated = _HEATMAP_CACHE.get("updated_at", 0.0);
\* the cache is fresh: return cached
ReturnCached(t) ==
    /\ req[t].pc = "read_updated"
    /\ CacheHit(req[t].force, req[t].cached, req[t].now, cache.updated_at,
                req[t].ttl)
    /\ req' = [req EXCEPT ![t].pc = "done", ![t].updated = cache.updated_at,
                          ![t].resp = req[t].cached]
    /\ UNCHANGED <<clock, env_ttl, cache, builds, requests, otherThanHeatmap>>

\* heatmap.py:386-396: updated = _HEATMAP_CACHE.get("updated_at", 0.0);
\* no fresh data, or force: cap_value is computed and build_heatmap_full is
\* called
InvokeBuild(t) ==
    /\ req[t].pc = "read_updated"
    /\ ~CacheHit(req[t].force, req[t].cached, req[t].now, cache.updated_at,
                 req[t].ttl)
    /\ builds' = builds + 1
    /\ req' = [req EXCEPT ![t].pc = "build", ![t].updated = cache.updated_at,
                          ![t].invoked = builds + 1,
                          ![t].cap_value = CapValue(req[t].cap)]
    /\ UNCHANGED <<clock, env_ttl, cache, requests, otherThanHeatmap>>

\* heatmap.py:396, 358-372: build_heatmap_full returns its dict
BuildReturn(t) ==
    /\ req[t].pc = "build"
    /\ req' = [req EXCEPT ![t].pc = "store_data",
                          ![t].data = BuildResult(req[t].invoked, req[t].cap_value)]
    /\ UNCHANGED <<clock, env_ttl, cache, builds, requests, otherThanHeatmap>>

\* heatmap.py:396, 278, 288: build_heatmap_full raises (no token, index not
\* fetched); the exception leaves get_heatmap and the cache is not written
BuildRaise(t) ==
    /\ req[t].pc = "build"
    /\ req' = [req EXCEPT ![t].pc = "failed"]
    /\ UNCHANGED <<clock, env_ttl, cache, builds, requests, otherThanHeatmap>>

\* heatmap.py:397: _HEATMAP_CACHE["data"] = data
StoreData(t) ==
    /\ req[t].pc = "store_data"
    /\ cache' = [cache EXCEPT !.data = req[t].data]
    /\ req' = [req EXCEPT ![t].pc = "store_updated", ![t].wrote = 1]
    /\ UNCHANGED <<clock, env_ttl, builds, requests, otherThanHeatmap>>

\* heatmap.py:398-399: _HEATMAP_CACHE["updated_at"] = now; return data
StoreUpdated(t) ==
    /\ req[t].pc = "store_updated"
    /\ cache' = [cache EXCEPT !.updated_at = req[t].now]
    /\ req' = [req EXCEPT ![t].pc = "done", ![t].wrote = 2,
                          ![t].resp = req[t].data]
    /\ UNCHANGED <<clock, env_ttl, builds, requests, otherThanHeatmap>>

HeatmapNext ==
    \/ Tick
    \/ \E t \in Threads : Start(t)
    \/ \E t \in Threads : ReadData(t)
    \/ \E t \in Threads : ReturnCached(t)
    \/ \E t \in Threads : InvokeBuild(t)
    \/ \E t \in Threads : BuildReturn(t)
    \/ \E t \in Threads : BuildRaise(t)
    \/ \E t \in Threads : StoreData(t)
    \/ \E t \in Threads : StoreUpdated(t)

SpecHeatmap == HeatmapInit /\ [][HeatmapNext]_vars

-----------------------------------------------------------------------------
(***************************************************************************)
(* Properties of get_heatmap                                               *)
(***************************************************************************)

\* The request of thread t has read the time, the TTL and both cache fields.
HasRead(t) == req[t].pc \notin {"idle", "read_data", "read_updated"}

\* What the request of thread t saw: data in the cache, younger than the TTL.
SawFresh(t) ==
    /\ req[t].cached # NoData
    /\ (req[t].now - req[t].updated) < req[t].ttl

\* C1: a get_heatmap request with force=false that finds data in the cache
\* with (now - updated_at) < TTL returns exactly the cached object, never
\* invokes build_heatmap_full and writes neither field of _HEATMAP_CACHE,
\* whatever requests came before.
C1_FreshCacheIsServed ==
    \A t \in Threads :
        (HasRead(t) /\ ~req[t].force /\ SawFresh(t)) =>
            /\ req[t].pc = "done"
            /\ req[t].invoked = 0
            /\ req[t].wrote = 0
            /\ req[t].resp = req[t].cached

C1_Witness ==
    \E t \in Threads :
        /\ req[t].pc = "done" /\ ~req[t].force /\ SawFresh(t)
        /\ req[t].resp = req[t].cached
        /\ cache.data = req[t].cached
        /\ requests = MaxRequests

\* C2 (state part): a request with force=true invokes build_heatmap_full
\* whatever it read from the cache, and what it returns is the object that
\* this invocation built.
C2_ForceBuilds ==
    \A t \in Threads :
        (HasRead(t) /\ req[t].force) =>
            /\ req[t].invoked # 0
            /\ req[t].pc = "done" =>
                  /\ req[t].resp = req[t].data
                  /\ req[t].resp.id = req[t].invoked
                  /\ req[t].wrote = 2

\* C2 (step part): the request stores the object it built in
\* _HEATMAP_CACHE["data"] and then the time it read at its start in
\* _HEATMAP_CACHE["updated_at"].
C2_StoresBuilt ==
    \A t \in Threads :
        /\ (req[t].pc = "store_data" /\ req'[t].pc = "store_updated") =>
              cache' = [data |-> req[t].data, updated_at |-> cache.updated_at]
        /\ (req[t].pc = "store_updated" /\ req'[t].pc = "done") =>
              cache' = [data |-> cache.data, updated_at |-> req[t].now]

C3_CapAlwaysOverrides ==
    \A t \in Threads :
        req[t].pc = "done" => req[t].resp.global_entity_cap = req[t].cap

\* C3 as amended: a request with cap=N that rebuilds (force, or no fresh
\* data in the cache) gets meta.global_entity_cap = N when N # 0 and the
\* default 1,000,000 when N = 0; a request served from the cache gets the
\* cached object as it is, whatever N; no response carries a cap of 0.
C3_CapOverridesOnRebuild ==
    \A t \in Threads :
        req[t].pc = "done" =>
            /\ req[t].invoked # 0 =>
                  req[t].resp.global_entity_cap =
                      (IF req[t].cap = 0 THEN DEFAULT_CAP ELSE req[t].cap)
            /\ req[t].invoked = 0 =>
                  (req[t].resp = req[t].cached /\ req[t].cached # NoData)
            /\ req[t].resp.global_entity_cap # 0

C3_Witness ==
    \E t \in Threads :
        /\ req[t].pc = "done" /\ req[t].invoked # 0
        /\ req[t].cap = 0
        /\ req[t].resp.global_entity_cap = DEFAULT_CAP

\* C8 as stated: under any interleaving of concurrent get_heatmap requests
\* _HEATMAP_CACHE["updated_at"] never decreases.
C8_UpdatedAtMonotonic == [][cache'.updated_at >= cache.updated_at]_vars

-----------------------------------------------------------------------------
(***************************************************************************)
(* src/heatmap.py : build_heatmap_full                                     *)
(***************************************************************************)

\* Bounds of the aggregation model.
MaxCap == 2
MaxDatasets == 3
MaxEntities == 3
MaxCountries == 2

\* heatmap.py:325
SAMPLE_LIMIT == 80

otherThanBuild == <<hmVars, scVars, rfVars>>

HeatmapIdle ==
    /\ clock = StartTime
    /\ env_ttl = "unset"
    /\ cache = [data |-> NoData, updated_at |-> 0]
    /\ builds = 0
    /\ requests = 0
    /\ req = [t \in Threads |-> IdleReq]

\* What stream_entities yields: a dict, seen here by what the loop body does
\* with it.  countries is len(extract_countries_from_entity(ent)); fault says
\* where the body raises:
\*   "props"     properties is a non-empty list or a string, so props.items()
\*               raises in extract_countries_from_entity (heatmap.py:144-147)
\*   "datasets"  the entity has a country and its "datasets" holds an
\*               unhashable value (a list or a dict), so
\*               datasets_breakdown[c][ds] += 1 raises (heatmap.py:322)
Entities ==
    [countries : 0..MaxCountries, fault : {"none"}]
      \cup [countries : {0}, fault : {"props"}]
      \cup [countries : 1..MaxCountries, fault : {"datasets"}]

RECURSIVE SumWithCountry(_)
\* sum of entities_with_country over a list of attempts
SumWithCountry(attempts) ==
    IF attempts = <<>> THEN 0
    ELSE Head(attempts).entities_with_country + SumWithCountry(Tail(attempts))

BuildInit ==
    /\ HeatmapIdle
    /\ ScreenIdle
    /\ FindIdle
    /\ bpc = "start"
    /\ max_entities_global \in 0..MaxCap
    /\ processed_global = 0
    /\ dataset_count = 0
    /\ ds_attempt = NoAttempt
    /\ debug_attempts = <<>>
    /\ totals_sum = 0
    /\ samples = 0
    /\ counted = 0
    /\ result = NoResult

\* heatmap.py:278-286: the token is found and the accumulators are set up
BuildStart ==
    /\ bpc = "start"
    /\ bpc' = "next_ds"
    /\ UNCHANGED <<max_entities_global, processed_global, dataset_count,
                   ds_attempt, debug_attempts, totals_sum, samples, counted,
                   result, otherThanBuild>>

\* heatmap.py:278, 42-49: no delivery token: HTTPException(500);
\* heatmap.py:288, 172-187: the first step of iter_dataset_names fetches the
\* index and raises HTTPException(502) when that fails
BuildRaises ==
    /\ \/ bpc = "start"
       \/ bpc = "next_ds" /\ dataset_count = 0
    /\ bpc' = "raised"
    /\ UNCHANGED <<max_entities_global, processed_global, dataset_count,
                   ds_attempt, debug_attempts, totals_sum, samples, counted,
                   result, otherThanBuild>>

\* heatmap.py:288-296: iter_dataset_names yields the next dataset name
NextDataset ==
    /\ bpc = "next_ds"
    /\ dataset_count < MaxDatasets
    /\ dataset_count' = dataset_count + 1
    /\ ds_attempt' = NoAttempt
    /\ bpc' = "probe"
    /\ UNCHANGED <<max_entities_global, processed_global, debug_attempts,
                   totals_sum, samples, counted, result, otherThanBuild>>

\* heatmap.py:298-303: choose_entities_url finds no export: the attempt is
\* recorded with its error and the loop continues
ProbeNoExport ==
    /\ bpc = "probe"
    /\ debug_attempts' =
          Append(debug_attempts,
                 [ds_attempt EXCEPT !.error = "No entity export found"])
    /\ bpc' = "next_ds"
    /\ UNCHANGED <<max_entities_global, processed_global, dataset_count,
                   ds_attempt, totals_sum, samples, counted, result,
                   otherThanBuild>>

\* heatmap.py:298-300, 305-306: choose_entities_url returns a url; the
\* stream is opened
ProbeFound ==
    /\ bpc = "probe"
    /\ ds_attempt' = [ds_attempt EXCEPT !.url = TRUE]
    /\ bpc' = "stream"
    /\ UNCHANGED <<max_entities_global, processed_global, dataset_count,
                   debug_attempts, totals_sum, samples, counted, result,
                   otherThanBuild>>

\* heatmap.py:341: if processed_global >= max_entities_global
CapReached(processed, max) == processed >= max

\* heatmap.py:339-346: after the stream loop the attempt is recorded, and
\* the dataset loop is left when the cap is reached
AfterStream(attempt) ==
    /\ debug_attempts' = Append(debug_attempts, attempt)
    /\ bpc' = IF CapReached(processed_global', max_entities_global)
              THEN "finish" ELSE "next_ds"

\* heatmap.py:306-309, 339-346: the stream yields an entity when the cap is
\* already reached: it counts as tried and the stream loop breaks
StreamBreak ==
    /\ bpc = "stream"
    /\ ds_attempt.entities_tried < MaxEntities
    /\ processed_global >= max_entities_global
    /\ ds_attempt' = [ds_attempt EXCEPT !.entities_tried = @ + 1]
    /\ UNCHANGED processed_global
    /\ AfterStream(ds_attempt')
    /\ UNCHANGED <<max_entities_global, dataset_count, totals_sum, samples,
                   counted, result, otherThanBuild>>

\* heatmap.py:306-313: an entity without a country is skipped
StreamSkip ==
    /\ bpc = "stream"
    /\ ds_attempt.entities_tried < MaxEntities
    /\ processed_global < max_entities_global
    /\ \E ent \in Entities :
          /\ ent.fault = "none" /\ ent.countries = 0
          /\ ds_attempt' = [ds_attempt EXCEPT !.entities_tried = @ + 1]
    /\ UNCHANGED <<bpc, max_entities_global, processed_global, dataset_count,
                   debug_attempts, totals_sum, samples, counted, result,
                   otherThanBuild>>

\* heatmap.py:306-337: an entity with countries is counted
StreamCount ==
    /\ bpc = "stream"
    /\ ds_attempt.entities_tried < MaxEntities
    /\ processed_global < max_entities_global
    /\ \E ent \in Entities :
          /\ ent.fault = "none" /\ ent.countries > 0
          /\ ds_attempt' = [ds_attempt EXCEPT !.entities_tried = @ + 1,
                                              !.entities_with_country = @ + 1]
          /\ totals_sum' = totals_sum + ent.countries
    /\ counted' = counted + 1
    /\ samples' = IF samples < SAMPLE_LIMIT THEN samples + 1 ELSE samples
    /\ processed_global' = processed_global + 1
    /\ UNCHANGED <<bpc, max_entities_global, dataset_count, debug_attempts,
                   result, otherThanBuild>>

\* heatmap.py:306-311, 348-351: extract_countries_from_entity raises: the
\* attempt is recorded with the error and the dataset loop continues
StreamRaiseProps ==
    /\ bpc = "stream"
    /\ ds_attempt.entities_tried < MaxEntities
    /\ processed_global < max_entities_global
    /\ \E ent \in Entities :
          /\ ent.fault = "props"
          /\ ds_attempt' = [ds_attempt EXCEPT !.entities_tried = @ + 1,
                                              !.error = "Exception"]
    /\ debug_attempts' = Append(debug_attempts, ds_attempt')
    /\ bpc' = "next_ds"
    /\ UNCHANGED <<max_entities_global, processed_global, dataset_count,
                   totals_sum, samples, counted, result, otherThanBuild>>

\* heatmap.py:306-322, 348-351: the entity has a country, so
\* entities_with_country and totals of its first country are incremented,
\* and then datasets_breakdown[c][ds] raises: the attempt is recorded with
\* the error and the dataset loop continues; processed_global is not
\* incremented
StreamRaiseDatasets ==
    /\ bpc = "stream"
    /\ ds_attempt.entities_tried < MaxEntities
    /\ processed_global < max_entities_global
    /\ \E ent \in Entities :
          /\ ent.fault = "datasets"
          /\ ds_attempt' = [ds_attempt EXCEPT !.entities_tried = @ + 1,
                                              !.entities_with_country = @ + 1,
                                              !.error = "Exception"]
    /\ totals_sum' = totals_sum + 1
    /\ counted' = counted + 1
    /\ debug_attempts' = Append(debug_attempts, ds_attempt')
    /\ bpc' = "next_ds"
    /\ UNCHANGED <<max_entities_global, processed_global, dataset_count,
                   samples, result, otherThanBuild>>

\* heatmap.py:306, 249-251, 265-267, 339-346: the stream ends (no more
\* lines, a non-200 answer, or a RequestException caught in stream_entities)
StreamEnd ==
    /\ bpc = "stream"
    /\ UNCHANGED processed_global
    /\ AfterStream(ds_attempt)
    /\ UNCHANGED <<max_entities_global, dataset_count, ds_attempt, totals_sum,
                   samples, counted, result, otherThanBuild>>

\* heatmap.py:288: iter_dataset_names is exhausted
DatasetsExhausted ==
    /\ bpc = "next_ds"
    /\ bpc' = "finish"
    /\ UNCHANGED <<max_entities_global, processed_global, dataset_count,
                   ds_attempt, debug_attempts, totals_sum, samples, counted,
                   result, otherThanBuild>>

\* heatmap.py:353-372: the dict is returned
BuildFinish ==
    /\ bpc = "finish"
    /\ result' = [total_entities_with_country |-> totals_sum,
                  global_entity_cap |-> max_entities_global,
                  datasets_seen |-> dataset_count]
    /\ bpc' = "returned"
    /\ UNCHANGED <<max_entities_global, processed_global, dataset_count,
                   ds_attempt, debug_attempts, totals_sum, samples, counted,
                   otherThanBuild>>

BuildNext ==
    \/ BuildStart
    \/ BuildRaises
    \/ NextDataset
    \/ ProbeNoExport
    \/ ProbeFound
    \/ StreamBreak
    \/ StreamSkip
    \/ StreamCount
    \/ StreamRaiseProps
    \/ StreamRaiseDatasets
    \/ StreamEnd
    \/ DatasetsExhausted
    \/ BuildFinish

SpecBuild == BuildInit /\ [][BuildNext]_vars

\* The attempts recorded so far, with the one in progress.
AttemptsSoFar ==
    IF bpc \in {"probe", "stream"} THEN Append(debug_attempts, ds_attempt)
    ELSE debug_attempts

\* processed_global never exceeds max_entities_global.
C4_ProcessedWithinCap == processed_global <= max_entities_global

\* The entities counted into totals never exceed max_entities_global.
C4_CountedWithinCap == counted <= max_entities_global

\* processed_global equals the sum of entities_with_country over the attempts.
C4_ProcessedIsSum == processed_global = SumWithCountry(AttemptsSoFar)

\* No dataset is probed or streamed once processed_global equals the cap.
C4_NoProbeAtCap ==
    (bpc = "probe" \/ (bpc = "stream" /\ ds_attempt.entities_tried = 0)) =>
        processed_global # max_entities_global

\* C4 as stated: for every max_entities_global >= 0 the number of entities
\* counted into totals (processed_global, equal to the sum of
\* entities_with_country over debug.attempts) never exceeds
\* max_entities_global at any point of the aggregation, and once it equals
\* max_entities_global no later dataset is probed or streamed.
C4_StopsAtCap ==
    /\ C4_ProcessedWithinCap
    /\ C4_CountedWithinCap
    /\ C4_ProcessedIsSum
    /\ C4_NoProbeAtCap

-----------------------------------------------------------------------------
(***************************************************************************)
(* src/main.py : screen_person                                             *)
(***************************************************************************)

\* Bounds of the screening model: the longest result lists the upstream
\* endpoints return.
MaxMatch == 2
MaxSearch == 2

\* main.py:226, the hit threshold 0.7 (scores are counted in tenths)
HIT_THRESHOLD == 7

otherThanScreen == <<hmVars, bdVars, rfVars>>

\* Values of OPENSANCTIONS_KEY ("" stands for unset or empty) and of
\* OPENSANCTIONS_MAX_RESULTS.
ApiKeys == {"", "k"}
MaxEnv == {"unset", "abc", "0", "1", "2"}

\* main.py:117-120: int(os.getenv("OPENSANCTIONS_MAX_RESULTS", "50")), 50
\* when int() raises
GetMaxResults(env) ==
    LET s == IF env = "unset" THEN "50" ELSE env
    IN  IF IsIntString(s) THEN ParseInt(s) ELSE 50

\* An element of an upstream result list.  dict = FALSE is an element that
\* is no JSON object (r.get raises AttributeError).  id = 0 is a missing or
\* falsy id; score = -1 is a score float() cannot convert.
RawRecords ==
    [dict : {TRUE}, id : {0, 1}, caption : {"a"}, score : {-1, 5, 9}]
      \cup {[dict |-> FALSE, id |-> 0, caption |-> "", score |-> -1]}

\* Sequences over S of length at most n.
SeqUpTo(S, n) == UNION {[1..k -> S] : k \in 0..n}

\* main.py:44-48
coerce_score(x) == IF x = -1 THEN 0 ELSE x

\* main.py:50-105: the fields of the normalized record that screen_person
\* reads (name, score, raw.id)
normalize_result_record(r) ==
    [name |-> r.caption, score |-> coerce_score(r.score), raw_id |-> r.id]

\* main.py:174-179
record_key(r) ==
    IF r.raw_id # 0 THEN <<"id", r.raw_id, 0>>
    ELSE <<"name", r.name, r.score>>

\* unique_by_id[key] = rec on an insertion-ordered dict
DictPut(d, key, rec) ==
    IF \E i \in 1..Len(d) : d[i][1] = key
    THEN [i \in 1..Len(d) |-> IF d[i][1] = key THEN <<key, rec>> ELSE d[i]]
    ELSE Append(d, <<key, rec>>)

RECURSIVE DictPutAll(_, _)
\* main.py:181-182
DictPutAll(d, recs) ==
    IF recs = <<>> THEN d
    ELSE DictPutAll(DictPut(d, record_key(Head(recs)), Head(recs)), Tail(recs))

DictValues(d) == [i \in 1..Len(d) |-> d[i][2]]

\* The JSON bodies of the match endpoint:
\*   "q1"       {"responses": {"q1": {"results": items}}}
\*   "list"     a top-level list of items
\*   "matches"  {"responses": {"q1": {"results": null}}, "matches": items}
MatchBodies == [kind : {"q1", "list", "matches"},
                items : SeqUpTo(RawRecords, MaxMatch)]

\* main.py:155-167.  On a top-level list data.get raises, match_results
\* stays [] and, being a list, is kept.
ExtractMatchResults(data) ==
    CASE data.kind = "q1" -> data.items
      [] data.kind = "list" -> <<>>
      [] data.kind = "matches" -> data.items

\* The JSON bodies of the search endpoint:
\*   "results"  {"results": items}, "list"  a top-level list,
\*   "hits"     {"hits": items},    "other" a dict with none of the keys
SearchBodies == [kind : {"results", "list", "hits", "other"},
                 items : SeqUpTo(RawRecords, MaxSearch)]

\* main.py:199-211
ExtractSearchResults(sdata) ==
    IF sdata.kind = "other" THEN <<>> ELSE sdata.items

RECURSIVE MergeSearch(_, _, _)
\* main.py:213-217: [d |-> the dict, crash |-> an element was no dict]
MergeSearch(d, items, max) ==
    IF items = <<>> THEN [d |-> d, crash |-> FALSE]
    ELSE IF ~Head(items).dict THEN [d |-> d, crash |-> TRUE]
    ELSE LET nr == normalize_result_record(Head(items))
             d2 == DictPut(d, record_key(nr), nr)
         IN  IF Len(d2) >= max THEN [d |-> d2, crash |-> FALSE]
             ELSE MergeSearch(d2, Tail(items), max)

\* list[:n] for n >= 0
Take(seq, n) == SubSeq(seq, 1, IF n < Len(seq) THEN n ELSE Len(seq))

\* main.py:114: if not api_key
KeyMissing(key) == key = ""

\* main.py:143: if resp.status_code != 200
\* Faulty variant: the status of the match answer is not looked at.
MatchRejected_Never(status) == FALSE

MatchRejected(status) == status # 200

\* main.py:190: if total_collected < MAX_RESULTS
\* Faulty variant: <= for <.
NeedSearch_OffByOne(total, max) == total <= max

NeedSearch(total, max) == total < max

ScreenInit ==
    /\ HeatmapIdle
    /\ BuildIdle
    /\ FindIdle
    /\ spc = "start"
    /\ api_key \in ApiKeys
    /\ env_max \in MaxEnv
    /\ MAX_RESULTS = 0
    /\ calls = <<>>
    /\ match_resp = NoMatchResp
    /\ match_results = <<>>
    /\ unique_by_id = <<>>
    /\ total_collected = 0
    /\ used_search = FALSE
    /\ raw_results_count = 0
    /\ http_status = 0
    /\ body = NoBody

\* main.py:113-115: the key is not set: HTTPException(500)
ScreenNoKey ==
    /\ spc = "start"
    /\ KeyMissing(api_key)
    /\ http_status' = 500
    /\ spc' = "error"
    /\ UNCHANGED <<api_key, env_max, MAX_RESULTS, calls, match_resp,
                   match_results, unique_by_id, total_collected, used_search,
                   raw_results_count, body, otherThanScreen>>

\* main.py:117-138: MAX_RESULTS is read and the match endpoint is requested
CallMatch ==
    /\ spc = "start"
    /\ ~KeyMissing(api_key)
    /\ MAX_RESULTS' = GetMaxResults(env_max)
    /\ calls' = Append(calls, "match")
    /\ spc' = "match_wait"
    /\ UNCHANGED <<api_key, env_max, match_resp, match_results, unique_by_id,
                   total_collected, used_search, raw_results_count,
                   http_status, body, otherThanScreen>>

\* main.py:139-141: requests.post raises RequestException: HTTPException(502)
MatchTransportError ==
    /\ spc = "match_wait"
    /\ match_resp' = [outcome |-> "transport", status |-> 0, json |-> FALSE]
    /\ http_status' = 502
    /\ spc' = "error"
    /\ UNCHANGED <<api_key, env_max, MAX_RESULTS, calls, match_results,
                   unique_by_id, total_collected, used_search,
                   raw_results_count, body, otherThanScreen>>

\* main.py:143-152: the match endpoint answers with a status other than 200,
\* or with 200 and a body that is no JSON: HTTPException(502)
MatchBadAnswer ==
    /\ spc = "match_wait"
    /\ \E status \in {200, 429}, json \in BOOLEAN :
          /\ MatchRejected(status) \/ ~json
          /\ match_resp' = [outcome |-> "answered", status |-> status,
                            json |-> json]
    /\ http_status' = 502
    /\ spc' = "error"
    /\ UNCHANGED <<api_key, env_max, MAX_RESULTS, calls, match_results,
                   unique_by_id, total_collected, used_search,
                   raw_results_count, body, otherThanScreen>>

\* main.py:143-172: the match endpoint answers with JSON holding an element
\* that is no object: normalize_result_record raises and the request ends
\* with an internal server error
MatchCrash ==
    /\ spc = "match_wait"
    /\ \E status \in {200, 429}, data \in MatchBodies :
          /\ ~MatchRejected(status)
          /\ match_resp' = [outcome |-> "answered", status |-> status,
                            json |-> TRUE]
          /\ match_results' = ExtractMatchResults(data)
          /\ \E i \in 1..Len(match_results') : ~match_results'[i].dict
    /\ http_status' = 500
    /\ spc' = "error"
    /\ UNCHANGED <<api_key, env_max, MAX_RESULTS, calls, unique_by_id,
                   total_collected, used_search, raw_results_count, body,
                   otherThanScreen>>

\* main.py:143-197: the match endpoint answers with JSON: the results are
\* normalized and deduplicated, and the search endpoint is requested when
\* they are fewer than MAX_RESULTS
MatchAnswer ==
    /\ spc = "match_wait"
    /\ \E status \in {200, 429}, data \in MatchBodies :
          /\ ~MatchRejected(status)
          /\ match_resp' = [outcome |-> "answered", status |-> status,
                            json |-> TRUE]
          /\ match_results' = ExtractMatchResults(data)
          /\ \A i \in 1..Len(match_results') : match_results'[i].dict
    /\ unique_by_id' =
          DictPutAll(<<>>, [i \in 1..Len(match_results') |->
                              normalize_result_record(match_results'[i])])
    /\ total_collected' = Len(unique_by_id')
    /\ raw_results_count' = Len(match_results')
    /\ IF NeedSearch(total_collected', MAX_RESULTS)
       THEN /\ used_search' = TRUE
            /\ calls' = Append(calls, "search")
            /\ spc' = "search_wait"
       ELSE /\ used_search' = FALSE
            /\ calls' = calls
            /\ spc' = "respond"
    /\ UNCHANGED <<api_key, env_max, MAX_RESULTS, http_status, body,
                   otherThanScreen>>

\* main.py:197, 218-221: the search request raises RequestException, or
\* answers with a status other than 200: logged, nothing is merged.  A 200
\* with a body that is no JSON ends the same way where the JSON error of
\* requests is a RequestException.
SearchFails ==
    /\ spc = "search_wait"
    /\ spc' = "respond"
    /\ UNCHANGED <<api_key, env_max, MAX_RESULTS, calls, match_resp,
                   match_results, unique_by_id, total_collected, used_search,
                   raw_results_count, http_status, body, otherThanScreen>>

\* main.py:198-217: the search endpoint answers 200 with JSON: its results
\* are merged until MAX_RESULTS records are held
SearchAnswer ==
    /\ spc = "search_wait"
    /\ \E sdata \in SearchBodies :
          LET sresults == ExtractSearchResults(sdata)
              merged == MergeSearch(unique_by_id, sresults, MAX_RESULTS)
          IN  /\ ~merged.crash
              /\ raw_results_count' = raw_results_count + Len(sresults)
              /\ unique_by_id' = merged.d
    /\ spc' = "respond"
    /\ UNCHANGED <<api_key, env_max, MAX_RESULTS, calls, match_resp,
                   match_results, total_collected, used_search, http_status,
                   body, otherThanScreen>>

\* main.py:199, 214: the search answer is a 200 whose body is no JSON, where
\* the JSON error of requests is a plain ValueError, or holds an element that
\* is no object: the exception is not caught and the request ends with an
\* internal server error
SearchCrash ==
    /\ spc = "search_wait"
    /\ \/ UNCHANGED raw_results_count
       \/ \E sdata \in SearchBodies :
             LET sresults == ExtractSearchResults(sdata)
             IN  /\ MergeSearch(unique_by_id, sresults, MAX_RESULTS).crash
                 /\ raw_results_count' = raw_results_count + Len(sresults)
    /\ http_status' = 500
    /\ spc' = "error"
    /\ UNCHANGED <<api_key, env_max, MAX_RESULTS, calls, match_resp,
                   match_results, unique_by_id, total_collected, used_search,
                   body, otherThanScreen>>

\* main.py:223-236: the result body is returned
Respond ==
    /\ spc = "respond"
    /\ LET final_matches == Take(DictValues(unique_by_id), MAX_RESULTS)
       IN  body' = [status |->
                       IF \E i \in 1..Len(final_matches) :
                              final_matches[i].score > HIT_THRESHOLD
                       THEN "hit" ELSE "clean",
                    matches |-> final_matches,
                    raw_results_count |-> raw_results_count,
                    requested_max_results |-> MAX_RESULTS,
                    used_search |-> used_search]
    /\ http_status' = 200
    /\ spc' = "returned"
    /\ UNCHANGED <<api_key, env_max, MAX_RESULTS, calls, match_resp,
                   match_results, unique_by_id, total_collected, used_search,
                   raw_results_count, otherThanScreen>>

ScreenNext ==
    \/ ScreenNoKey
    \/ CallMatch
    \/ MatchTransportError
    \/ MatchBadAnswer
    \/ MatchCrash
    \/ MatchAnswer
    \/ SearchFails
    \/ SearchAnswer
    \/ SearchCrash
    \/ Respond

SpecScreen == ScreenInit /\ [][ScreenNext]_vars

\* The match call succeeded: a 200 with a JSON body whose results were all
\* normalized.
MatchSucceeded ==
    /\ match_resp = [outcome |-> "answered", status |-> 200, json |-> TRUE]
    /\ \A i \in 1..Len(match_results) : match_results[i].dict

\* The number of distinct match records, by record key.
DistinctMatches ==
    Cardinality({record_key(normalize_result_record(match_results[i])) :
                    i \in 1..Len(match_results)})

C6_ErrorHandling ==
    /\ (http_status = 200 \/ body # NoBody) =>
          /\ api_key # ""
          /\ match_resp = [outcome |-> "answered", status |-> 200, json |-> TRUE]
          /\ spc = "returned"
    /\ (api_key = "" /\ spc # "start") =>
          (spc = "error" /\ http_status = 500 /\ calls = <<>>)
    /\ (\/ match_resp.outcome = "transport"
        \/ /\ match_resp.outcome = "answered"
           /\ (match_resp.status # 200 \/ ~match_resp.json)) =>
          (spc = "error" /\ http_status = 502 /\ calls = <<"match">>)

C6_Witness ==
    /\ spc = "error"
    /\ http_status = 502
    /\ match_resp = [outcome |-> "answered", status |-> 429, json |-> TRUE]
    /\ calls = <<"match">>

-----------------------------------------------------------------------------
(***************************************************************************)
(* src/main.py : recursive_find                                            *)
(***************************************************************************)

\* Bounds of the trees searched: nesting depth and items per container.
MaxDepth == 2
MaxWidth == 2

Str(x) == [t |-> "str", v |-> x, kids |-> <<>>]
Dict(items) == [t |-> "dict", v |-> "", kids |-> items]
List(items) == [t |-> "list", v |-> "", kids |-> items]

Leaves == {None, Str("x"), Str("y")}

\* The key names that occur in the dicts, and the key lists searched for.
DictKeys == {"name", "Name", "id"}
KeyLists == {<<"name">>, <<"id", "NAME">>}

\* str.lower() on the names used
Lower(s) ==
    CASE s = "Name" -> "name"
      [] s = "NAME" -> "name"
      [] OTHER -> s

\* The items of a dict: its keys are distinct.
DictItems(vals) ==
    {s \in SeqUpTo([k : DictKeys, val : vals], MaxWidth) :
        \A i, j \in 1..Len(s) : i # j => s[i].k # s[j].k}

ListItems(vals) == SeqUpTo([k : {""}, val : vals], MaxWidth)

RECURSIVE Trees(_)
\* The trees nested at most d deep.
Trees(d) ==
    IF d = 0 THEN Leaves
    ELSE LET sub == Trees(d - 1)
         IN  sub \cup {Dict(s) : s \in DictItems(sub)}
                 \cup {List(s) : s \in ListItems(sub)}

\* main.py:32: k and isinstance(k, str) and k.lower() in [kk.lower() for kk in keys]
KeyMatches(k, ks) ==
    k # "" /\ Lower(k) \in {Lower(ks[i]) : i \in 1..Len(ks)}

RECURSIVE recursive_find(_, _), FindInDict(_, _), FindInList(_, _)
\* main.py:27-42
recursive_find(o, ks) ==
    IF o.t = "dict" THEN FindInDict(o.kids, ks)
    ELSE IF o.t = "list" THEN FindInList(o.kids, ks)
    ELSE None

\* main.py:31-36: the loop over the items of a dict
FindInDict(items, ks) ==
    IF items = <<>> THEN None
    ELSE IF KeyMatches(Head(items).k, ks) THEN Head(items).val
    ELSE LET val == recursive_find(Head(items).val, ks)
         IN  IF val # None THEN val ELSE FindInDict(Tail(items), ks)

\* main.py:38-41: the loop over the elements of a list
FindInList(items, ks) ==
    IF items = <<>> THEN None
    ELSE LET val == recursive_find(Head(items).val, ks)
         IN  IF val # None THEN val ELSE FindInList(Tail(items), ks)

FindInit ==
    /\ HeatmapIdle
    /\ BuildIdle
    /\ ScreenIdle
    /\ fpc = "call"
    /\ obj \in Trees(MaxDepth)
    /\ keys \in KeyLists
    /\ found = None

\* main.py:27-42: the call returns
Find ==
    /\ fpc = "call"
    /\ found' = recursive_find(obj, keys)
    /\ fpc' = "returned"
    /\ UNCHANGED <<obj, keys, hmVars, bdVars, scVars>>

FindNext == Find

SpecFind == FindInit /\ [][FindNext]_vars

RECURSIVE MatchValues(_, _)
\* The values that are not None of the matching keys of every dict in o.
MatchValues(o, ks) ==
    LET below == UNION {MatchValues(o.kids[i].val, ks) : i \in 1..Len(o.kids)}
    IN  IF o.t = "dict"
        THEN below \cup {o.kids[i].val : i \in
                            {j \in 1..Len(o.kids) :
                                /\ Lower(o.kids[j].k) \in
                                      {Lower(ks[n]) : n \in 1..Len(ks)}
                                /\ o.kids[j].val # None}}
        ELSE below

\* C7 as stated: if some dict anywhere in obj has a key equal, without
\* regard to case, to one of keys and a value that is not None, then
\* recursive_find returns the value of such a key, which is not None; it
\* returns None only when there is no such key.
C7_FindsMatchingKey ==
    fpc = "returned" =>
        /\ MatchValues(obj, keys) # {} => found \in MatchValues(obj, keys)
        /\ found = None => MatchValues(obj, keys) = {}

\* What does hold: a value returned that is not None is a value of a
\* matching key.
C7_FoundIsMatch ==
    (fpc = "returned" /\ found # None) => found \in MatchValues(obj, keys)

=============================================================================
